---- MODULE Spec2Model ----
(***************************************************************************)
(* A model of the byte-indexed radix trie of src/src/lib.rs.               *)
(*                                                                         *)
(* RadixTrie<T> owns a root RadixNode<T> and a counter node_count.  A      *)
(* RadixNode<T> holds accept_state : Option<T> and                         *)
(* children : Option<Box<[RadixNode<T>; 256]>>.  A Box is a heap           *)
(* allocation: the model keeps the allocations in the sequence heap, and   *)
(* a Box is the index (address) of its array in heap, so that "the same    *)
(* children array" is an equality of addresses and "an allocation" is one  *)
(* more element of heap.  Option<X> is modelled as a sequence of length    *)
(* at most one: None is << >> and Some(x) is << x >>.                      *)
(***************************************************************************)
EXTENDS Integers, Sequences, FiniteSets

\* const BRANCH_FACTOR: usize = 256;
BRANCH_FACTOR == 256

\* The number of insert calls a behaviour makes.
MaxInserts == 3

\* The values of the generic type T; the trie only moves them.
Values == {1, 2}

None == << >>

Some(x) == << x >>

\* The keys a call may pass: the empty key, "c", "ca", "cat" and "car" (a
\* chain of prefixes and two keys that differ in their last byte only), and
\* two keys with other first bytes, the lowest and the highest byte value.
Keys ==
    { << >>, <<99>>, <<99, 97>>, <<99, 97, 116>>, <<99, 97, 114>>,
      <<0>>, <<255, 97>> }

VARIABLES
    root,        \* RadixTrie::root, a RadixNode
    node_count,  \* RadixTrie::node_count
    heap,        \* the Box<Level<T>> allocations made so far, by address
    calls        \* the insert calls made so far: key, value, value returned
                 \* by the node-level insert

vars == << root, node_count, heap, calls >>

----------------------------------------------------------------------------
(* RadixNode *)

\* RadixNode::new (and Default::default, which calls it).
RadixNode_new == [accept_state |-> None, children |-> None]

\* The array new_children builds: BRANCH_FACTOR default nodes, indexed by
\* byte value.
Level == [i \in 0..(BRANCH_FACTOR - 1) |-> RadixNode_new]

\* new_children with the loop run once too often (0..=BRANCH_FACTOR): the
\* array has a slot too many.
new_children_one_more(h) ==
    [heap |-> Append(h, [i \in 0..BRANCH_FACTOR |-> RadixNode_new]),
     box  |-> Len(h) + 1]

\* RadixNode::new_children: Box::new of a fresh array.  h is the heap before
\* the call; the result is the heap after it and the new Box.
new_children(h) == [heap |-> Append(h, Level), box |-> Len(h) + 1]

\* set_value that keeps a value already stored (insert-if-absent) and
\* returns it.
set_value_keep_first(node, value) ==
    IF node.accept_state = None
    THEN [node |-> [node EXCEPT !.accept_state = Some(value)], found |-> None]
    ELSE [node |-> node, found |-> node.accept_state]

\* set_value that overwrites the whole node by a fresh one holding the
\* value, dropping the node's children.
set_value_replace_node(node, value) ==
    [node  |-> [accept_state |-> Some(value), children |-> None],
     found |-> node.accept_state]

\* RadixNode::set_value: take() the accept state, store Some(value), return
\* what was taken.
set_value(node, value) ==
    LET prev == node.accept_state
    IN  [node |-> [node EXCEPT !.accept_state = Some(value)], found |-> prev]

RECURSIVE RadixNode_insert(_, _, _, _)
RECURSIVE handle_next_byte(_, _, _, _, _)

\* handle_next_byte without the is_none test: a new array replaces the
\* node's children on every call.
handle_next_byte_realloc(h, node, byte, key, value) ==
    LET a == new_children(h)
        r == RadixNode_insert(a.heap, a.heap[a.box][byte], key, value)
    IN  [node  |-> [node EXCEPT !.children = Some(a.box)],
         heap  |-> [r.heap EXCEPT ![a.box][byte] = r.node],
         found |-> r.found]

\* handle_next_byte whose match takes its second arm after the
\* initialization too: a node without children gets two arrays, the first
\* one dropped.
handle_next_byte_twice(h, node, byte, key, value) ==
    LET init == IF node.children = None
                THEN LET a == new_children(h)
                     IN  [heap |-> a.heap,
                          node |-> [node EXCEPT !.children = Some(a.box)],
                          fresh |-> TRUE]
                ELSE [heap |-> h, node |-> node, fresh |-> FALSE]
    IN  IF ~init.fresh
        THEN LET box == init.node.children[1]
                 r   == RadixNode_insert(init.heap, init.heap[box][byte],
                                         key, value)
             IN  [node  |-> init.node,
                  heap  |-> [r.heap EXCEPT ![box][byte] = r.node],
                  found |-> r.found]
        ELSE LET a == new_children(init.heap)
                 r == RadixNode_insert(a.heap, a.heap[a.box][byte],
                                       key, value)
             IN  [node  |-> [init.node EXCEPT !.children = Some(a.box)],
                  heap  |-> [r.heap EXCEPT ![a.box][byte] = r.node],
                  found |-> r.found]

\* handle_next_byte that reduces the byte modulo BRANCH_FACTOR - 1: byte 255
\* lands in slot 0.
handle_next_byte_wrap(h, node, byte, key, value) ==
    LET slot == byte % (BRANCH_FACTOR - 1)
        init == IF node.children = None
                THEN LET a == new_children(h)
                     IN  [heap |-> a.heap,
                          node |-> [node EXCEPT !.children = Some(a.box)]]
                ELSE [heap |-> h, node |-> node]
        box  == init.node.children[1]
        r    == RadixNode_insert(init.heap, init.heap[box][slot], key, value)
    IN  [node  |-> init.node,
         heap  |-> [r.heap EXCEPT ![box][slot] = r.node],
         found |-> r.found]

\* RadixNode::handle_next_byte on the node `node` (a copy of *self; the
\* result's node is *self afterwards), with `key` the bytes the iterator
\* still holds after `byte`.
handle_next_byte(h, node, byte, key, value) ==
    LET init == IF node.children = None
                THEN LET a == new_children(h)
                     IN  [heap |-> a.heap,
                          node |-> [node EXCEPT !.children = Some(a.box)]]
                ELSE [heap |-> h, node |-> node]
    IN  IF init.node.children # None
        THEN LET box == init.node.children[1]
                 r   == RadixNode_insert(init.heap, init.heap[box][byte],
                                         key, value)
             IN  [node  |-> init.node,
                  heap  |-> [r.heap EXCEPT ![box][byte] = r.node],
                  found |-> r.found]
        ELSE LET a == new_children(init.heap)
                 r == RadixNode_insert(a.heap, a.heap[a.box][byte],
                                       key, value)
             IN  [node  |-> [init.node EXCEPT !.children = Some(a.box)],
                  heap  |-> [r.heap EXCEPT ![a.box][byte] = r.node],
                  found |-> r.found]

\* insert that stops one byte early: a key's value lands on the node of the
\* key without its last byte.
RadixNode_insert_early(h, node, key, value) ==
    IF Len(key) <= 1
    THEN LET r == set_value(node, value)
         IN  [node |-> r.node, heap |-> h, found |-> r.found]
    ELSE handle_next_byte(h, node, Head(key), Tail(key), value)

\* RadixNode::insert: key.next() is None on the empty sequence, and
\* Some(Head(key)) leaving Tail(key) otherwise.
RadixNode_insert(h, node, key, value) ==
    IF key = << >>
    THEN LET r == set_value(node, value)
         IN  [node |-> r.node, heap |-> h, found |-> r.found]
    ELSE handle_next_byte(h, node, Head(key), Tail(key), value)

----------------------------------------------------------------------------
(* RadixTrie *)

\* increment that leaves the counter alone.
increment_forgotten(count) == count

\* RadixTrie::increment.
increment(count) == count + 1

\* RadixTrie::len.
len == node_count

\* RadixTrie::is_empty.
is_empty == len = 0

\* RadixTrie::new.
Init ==
    /\ root = RadixNode_new
    /\ node_count = 0
    /\ heap = << >>
    /\ calls = << >>

\* insert that counts a call only when the key was new (the node-level
\* insert returned None).
RadixTrie_insert_distinct(key, value) ==
    /\ Len(calls) < MaxInserts
    /\ LET r == RadixNode_insert(heap, root, key, value)
       IN  /\ root' = r.node
           /\ heap' = r.heap
           /\ calls' = Append(calls,
                              [key |-> key, value |-> value, found |-> r.found])
           /\ node_count' = IF r.found = None THEN increment(node_count)
                                               ELSE node_count

\* RadixTrie::insert: the root's insert, then the increment.  The value the
\* root's insert returns is dropped by the code; calls records it.
RadixTrie_insert(key, value) ==
    /\ Len(calls) < MaxInserts
    /\ LET r == RadixNode_insert(heap, root, key, value)
       IN  /\ root' = r.node
           /\ heap' = r.heap
           /\ calls' = Append(calls,
                              [key |-> key, value |-> value, found |-> r.found])
    /\ node_count' = increment(node_count)

Next == \E key \in Keys, value \in Values : RadixTrie_insert(key, value)

Spec == Init /\ [][Next]_vars

----------------------------------------------------------------------------
(* Reading the trie: the node a byte path leads to, and the paths that     *)
(* lead to a node.                                                         *)

RECURSIVE Walk(_, _, _)
\* The node reached from `node` along `path`, indexing each children array
\* by the next byte as handle_next_byte does; None when a node on the way
\* has no children.
Walk(h, node, path) ==
    IF path = << >> THEN Some(node)
    ELSE IF node.children = None THEN None
    ELSE Walk(h, h[node.children[1]][Head(path)], Tail(path))

\* The node at `path` in the current state, and in the next one.
NodeAt(path) == Walk(heap, root, path)

NodeAtNext(path) == Walk(heap', root', path)

IsPrefix(p, k) == Len(p) <= Len(k) /\ SubSeq(k, 1, Len(p)) = p

IsStrictPrefix(p, k) == Len(p) < Len(k) /\ SubSeq(k, 1, Len(p)) = p

\* The strict prefixes of a key: the paths of the nodes its insert passes
\* through before its terminus.
StrictPrefixes(k) == { SubSeq(k, 1, n) : n \in 0..(Len(k) - 1) }

RECURSIVE ValueIffKey(_, _, _, _)
\* In the subtree of `node`, whose path is `path`: a node holds a value if
\* and only if its path is one of the keys ks.
ValueIffKey(h, node, path, ks) ==
    /\ (node.accept_state # None) <=> (path \in ks)
    /\ node.children # None =>
           \A b \in DOMAIN h[node.children[1]] :
               ValueIffKey(h, h[node.children[1]][b], Append(path, b), ks)

RECURSIVE ChildrenIffExtended(_, _, _, _)
\* In the subtree of `node`, whose path is `path`: a node has children if
\* and only if its path is one of ps (the paths some key strictly extends),
\* and a children array has one slot per byte value, BRANCH_FACTOR in all.
ChildrenIffExtended(h, node, path, ps) ==
    /\ (node.children # None) <=> (path \in ps)
    /\ node.children # None =>
           /\ DOMAIN h[node.children[1]] = 0..(BRANCH_FACTOR - 1)
           /\ Cardinality(DOMAIN h[node.children[1]]) = BRANCH_FACTOR
           /\ \A b \in DOMAIN h[node.children[1]] :
                  ChildrenIffExtended(h, h[node.children[1]][b],
                                      Append(path, b), ps)

RECURSIVE SameSubtree(_, _, _, _)
\* The subtree of n1 in heap h1 and the subtree of n2 in heap h2 are the
\* same: same values, same Boxes, same arrays, all the way down.
SameSubtree(h1, n1, h2, n2) ==
    /\ n1 = n2
    /\ n1.children # None =>
           LET box == n1.children[1]
           IN  /\ box \in DOMAIN h2
               /\ DOMAIN h2[box] = DOMAIN h1[box]
               /\ \A b \in DOMAIN h1[box] :
                      SameSubtree(h1, h1[box][b], h2, h2[box][b])

RECURSIVE SameButValueAt(_, _, _, _, _, _, _)
\* The subtree of n2 in h2 is the subtree of n1 in h1 (same nodes, same
\* Boxes, same values) but for the node at path k, which holds Some(v).
\* `path` is the path of n1 and n2.
SameButValueAt(h1, n1, h2, n2, path, k, v) ==
    /\ n2.children = n1.children
    /\ n2.accept_state = IF path = k THEN Some(v) ELSE n1.accept_state
    /\ n1.children # None =>
           LET box == n1.children[1]
           IN  /\ box \in DOMAIN h2
               /\ DOMAIN h2[box] = DOMAIN h1[box]
               /\ \A b \in DOMAIN h1[box] :
                      SameButValueAt(h1, h1[box][b], h2, h2[box][b],
                                     Append(path, b), k, v)

RECURSIVE KeepsChildren(_, _, _, _)
\* Every node of the subtree of n1 in h1 that has children has the same Box
\* in the subtree of n2 in h2.
KeepsChildren(h1, n1, h2, n2) ==
    n1.children # None =>
        LET box == n1.children[1]
        IN  /\ n2.children = n1.children
            /\ box \in DOMAIN h2
            /\ DOMAIN h2[box] = DOMAIN h1[box]
            /\ \A b \in DOMAIN h1[box] :
                   KeepsChildren(h1, h1[box][b], h2, h2[box][b])

\* The paths that one of the keys ks strictly extends.
StrictPrefixesOf(ks) == UNION { StrictPrefixes(k) : k \in ks }

\* The keys of the calls cs.
KeysOf(cs) == { cs[i].key : i \in 1..Len(cs) }

\* The value of the last call of cs with key k, if any.
LastValue(cs, k) ==
    LET I == { i \in 1..Len(cs) : cs[i].key = k }
    IN  IF I = {} THEN None
        ELSE Some(cs[CHOOSE i \in I : \A j \in I : j <= i].value)

\* The call a step makes: the one it appends to calls.
Call == calls'[Len(calls')]

\* The Boxes a step allocates.
NewBoxes == (Len(heap) + 1)..Len(heap')

RECURSIVE NodeCount(_, _)
\* The number of nodes in the arrays of h at the addresses bs.
NodeCount(h, bs) ==
    IF bs = {} THEN 0
    ELSE LET b == CHOOSE x \in bs : TRUE
         IN  Cardinality(DOMAIN h[b]) + NodeCount(h, bs \ {b})

\* Whether the node at path p has a children array in the current state.
HasChildren(p) == NodeAt(p) # None /\ NodeAt(p)[1].children # None

----------------------------------------------------------------------------
(* Claims *)

\* C1: after n insert calls on a fresh trie, whatever their keys (repeated
\* keys and the empty key included), len() is n.
C1_LenIsNumberOfCalls == len = Len(calls)

\* C1's case: three calls, two of them with the same key and one with the
\* empty key.
C1_Witness ==
    /\ Len(calls) = 3
    /\ calls[1].key = calls[3].key
    /\ calls[2].key = << >>
    /\ calls[1].key # << >>
    /\ len = 3

\* C2: the node-level insert returns the value most recently inserted under
\* exactly that key (None if there was none), and the terminus node of every
\* inserted key stores the value of the last insert of that key.
C2_OverwriteReturnsPrevious ==
    /\ \A i \in 1..Len(calls) :
           calls[i].found = LastValue(SubSeq(calls, 1, i - 1), calls[i].key)
    /\ \A k \in KeysOf(calls) :
           /\ NodeAt(k) # None
           /\ NodeAt(k)[1].accept_state = LastValue(calls, k)

\* C2's case: a key inserted with v1, another key inserted, the first key
\* inserted again with v2 # v1; v1 came back and v2 is stored.
C2_Witness ==
    /\ Len(calls) = 3
    /\ calls[1].key = calls[3].key
    /\ calls[2].key # calls[1].key
    /\ calls[1].value # calls[3].value
    /\ calls[1].found = None
    /\ calls[3].found = Some(calls[1].value)
    /\ NodeAt(calls[3].key)[1].accept_state = Some(calls[3].value)

\* C3: a materialized node holds a value if and only if its path from the
\* root is the key of some insert call made so far.
C3_ValueIffKeyEndsHere == ValueIffKey(heap, root, << >>, KeysOf(calls))

\* C3's case: "cat" inserted and nothing else, so that the root, "c" and
\* "ca" are strict-prefix nodes without a value, as are the siblings.
C3_Witness ==
    /\ KeysOf(calls) = { <<99, 97, 116>> }
    /\ NodeAt(<<99, 97, 116>>)[1].accept_state # None
    /\ NodeAt(<<99, 97>>)[1].accept_state = None
    /\ NodeAt(<<99, 97, 114>>)[1].accept_state = None
    /\ root.accept_state = None

\* C4: an insert of the empty key stores the value at the root, allocates
\* nothing and leaves the root's children and every array as they were.
C4_EmptyKeyAtRoot ==
    [][ Call.key = << >> =>
            /\ root'.accept_state = Some(Call.value)
            /\ root'.children = root.children
            /\ heap' = heap ]_vars

\* C4's case: the empty key inserted last, into a root that has children,
\* and also into one that has none.
C4_Witness ==
    /\ Len(calls) = 2
    /\ calls[2].key = << >>
    /\ calls[1].key = <<99, 97>>
    /\ root.children # None
    /\ root.accept_state = Some(calls[2].value)

\* C5: an insert of a key that shares a prefix with an earlier key reuses
\* the nodes of the shared prefix: each node both keys pass through keeps the
\* Box it had, the array behind it changes in the slot of the key's next byte
\* only, and arrays are allocated for the nodes no earlier key passed
\* through, and for no others.  In every state two inserted keys that differ in
\* their last byte only end in two slots of the one array of their common
\* parent, each slot holding its own key's value.
C5_SharedPrefixReused ==
    /\ [][ LET k == Call.key
           IN  /\ \A j \in KeysOf(calls) : \A p \in StrictPrefixes(k) :
                      IsStrictPrefix(p, j) =>
                          /\ HasChildren(p)
                          /\ NodeAtNext(p)[1].children = NodeAt(p)[1].children
                          /\ LET box == NodeAt(p)[1].children[1]
                             IN  \A b \in DOMAIN heap[box] :
                                     b # k[Len(p) + 1] =>
                                         heap'[box][b] = heap[box][b]
               /\ Len(heap') - Len(heap) =
                      Cardinality({ p \in StrictPrefixes(k) :
                                      ~ \E j \in KeysOf(calls) :
                                            IsStrictPrefix(p, j) }) ]_vars
    /\ [] \A j1, j2 \in KeysOf(calls) :
              /\ Len(j1) = Len(j2)
              /\ Len(j1) >= 2
              /\ SubSeq(j1, 1, Len(j1) - 1) = SubSeq(j2, 1, Len(j2) - 1)
              /\ j1[Len(j1)] # j2[Len(j2)]
              => LET parent == NodeAt(SubSeq(j1, 1, Len(j1) - 1))
                     box    == parent[1].children[1]
                 IN  /\ parent # None
                     /\ parent[1].children # None
                     /\ NodeAt(j1) = Some(heap[box][j1[Len(j1)]])
                     /\ NodeAt(j2) = Some(heap[box][j2[Len(j2)]])
                     /\ heap[box][j1[Len(j1)]].accept_state
                            = LastValue(calls, j1)
                     /\ heap[box][j2[Len(j2)]].accept_state
                            = LastValue(calls, j2)

\* C5's case: "cat" then "car": three arrays in all, both values stored in
\* the array under "ca".
C5_Witness ==
    /\ Len(calls) = 2
    /\ calls[1].key = <<99, 97, 116>>
    /\ calls[2].key = <<99, 97, 114>>
    /\ Len(heap) = 3
    /\ NodeAt(<<99, 97>>)[1].children # None
    /\ LET box == NodeAt(<<99, 97>>)[1].children[1]
       IN  /\ heap[box][116].accept_state = Some(calls[1].value)
           /\ heap[box][114].accept_state = Some(calls[2].value)

\* C6: an insert of a non-empty key with first byte b leaves every node under
\* another first byte as it was: same value, same children, same subtree;
\* and where the root had no children before, the slots of the other first
\* bytes come out of the insert with no value and no children.
C6_OtherFirstByteUntouched ==
    [][ LET k == Call.key
        IN  k # << >> =>
                /\ root'.children # None
                /\ IF root.children # None
                   THEN /\ root'.children = root.children
                        /\ \A c \in DOMAIN heap[root.children[1]] :
                               c # k[1] =>
                                   SameSubtree(heap, heap[root.children[1]][c],
                                               heap', heap'[root.children[1]][c])
                   ELSE \A c \in DOMAIN heap'[root'.children[1]] :
                            c # k[1] =>
                                heap'[root'.children[1]][c] = RadixNode_new
      ]_vars

\* C6's case: "\xFFa" and "\0" inserted, then a key with first byte 'c'; the
\* nodes under 255 and 0 still hold what they held.
C6_Witness ==
    /\ Len(calls) = 3
    /\ calls[1].key = <<255, 97>>
    /\ calls[2].key = <<0>>
    /\ calls[3].key = <<99, 97>>
    /\ NodeAt(<<255, 97>>)[1].accept_state = Some(calls[1].value)
    /\ NodeAt(<<255>>)[1].children # None
    /\ NodeAt(<<0>>)[1].accept_state = Some(calls[2].value)
    /\ NodeAt(<<0>>)[1].children = None

\* C7: is_empty() is true exactly when no insert call has been made (and the
\* trie is then the fresh one: a root without value or children, counter 0),
\* and it is true exactly when len() is 0.
C7_EmptyIffNoCalls ==
    /\ is_empty <=> (Len(calls) = 0)
    /\ is_empty <=> (len = 0)
    /\ Len(calls) = 0 => root = RadixNode_new /\ heap = << >> /\ node_count = 0

\* C7's case: one insert, of the empty key: not empty, len() 1.
C7_Witness ==
    /\ Len(calls) = 1
    /\ calls[1].key = << >>
    /\ ~ is_empty
    /\ len = 1

\* C8: an insert of a key that was inserted before allocates nothing and
\* changes no node but the key's terminus, whose value it replaces: the same
\* nodes, the same Boxes, the same values elsewhere.
C8_OverwriteAllocatesNothing ==
    [][ Call.key \in KeysOf(calls) =>
            /\ Len(heap') = Len(heap)
            /\ SameButValueAt(heap, root, heap', root', << >>,
                              Call.key, Call.value) ]_vars

\* C8's case: "cat", "car", then "cat" again with another value.
C8_Witness ==
    /\ Len(calls) = 3
    /\ calls[1].key = <<99, 97, 116>>
    /\ calls[2].key = <<99, 97, 114>>
    /\ calls[3].key = <<99, 97, 116>>
    /\ calls[3].value # calls[1].value
    /\ Len(heap) = 3
    /\ NodeAt(<<99, 97, 116>>)[1].accept_state = Some(calls[3].value)

\* C9: in every state a node has children if and only if an inserted key
\* strictly extends its path, every array having BRANCH_FACTOR slots; a node
\* that had children keeps the same Box; and each array the insert allocates
\* is the children of a node on the key's path that had none, all of its
\* slots but the one of the key's next byte holding no value and no children.
C9_ChildrenLazy ==
    /\ [] ChildrenIffExtended(heap, root, << >>,
                              StrictPrefixesOf(KeysOf(calls)))
    /\ [][ LET k == Call.key
           IN  /\ KeepsChildren(heap, root, heap', root')
               /\ \A box \in NewBoxes :
                      \E p \in StrictPrefixes(k) :
                          /\ ~ HasChildren(p)
                          /\ NodeAtNext(p)[1].children = Some(box)
                          /\ Cardinality(DOMAIN heap'[box]) = BRANCH_FACTOR
                          /\ \A c \in DOMAIN heap'[box] :
                                 c # k[Len(p) + 1] =>
                                     heap'[box][c] = RadixNode_new ]_vars

\* C9's case: "c" then "cat": the root, "c" and "ca" have children, "cat"
\* and the sibling "car" have none.
C9_Witness ==
    /\ Len(calls) = 2
    /\ calls[1].key = <<99>>
    /\ calls[2].key = <<99, 97, 116>>
    /\ Len(heap) = 3
    /\ root.children # None
    /\ NodeAt(<<99>>)[1].children # None
    /\ NodeAt(<<99, 97>>)[1].children # None
    /\ NodeAt(<<99, 97, 116>>)[1].children = None
    /\ NodeAt(<<99, 97, 114>>)[1].children = None

\* C10 as stated: an insert of a key of length n allocates at most n nodes.
C10_AtMostLenNodes ==
    [][ NodeCount(heap', NewBoxes) <= Len(Call.key) ]_vars

\* C10, amended: an insert of a key of length n allocates at most n children
\* arrays, one for each node on the key's path that had none, each array
\* being BRANCH_FACTOR nodes: at most BRANCH_FACTOR * n nodes.
C10_AtMostLenArrays ==
    [][ LET k == Call.key
            allocated == Len(heap') - Len(heap)
        IN  /\ allocated <= Len(k)
            /\ allocated =
                   Cardinality({ p \in StrictPrefixes(k) : ~ HasChildren(p) })
            /\ NodeCount(heap', NewBoxes) = BRANCH_FACTOR * allocated ]_vars

\* C10's case: "cat" inserted into a trie that holds "c": two arrays, 512
\* nodes, for a key of length 3.
C10_Witness ==
    /\ Len(calls) = 2
    /\ calls[1].key = <<99>>
    /\ calls[2].key = <<99, 97, 116>>
    /\ calls[1].value = 1
    /\ Len(heap) = 3
    /\ NodeCount(heap, {2, 3}) = 2 * BRANCH_FACTOR

====
